---------------------------- MODULE Spec2Model ----------------------------
(***************************************************************************)
(* A model of ALLCools/_bam_to_allc.py: the pileup-to-ALLC worker          *)
(* (_bam_to_allc_worker), its indel stripper, the read-orientation         *)
(* normalizer (_convert_bam_strandness) and the driver (bam_to_allc).      *)
(*                                                                         *)
(* Text is modelled as a sequence of one-character strings; Python's       *)
(* 0-based indices are kept and turned into 1-based ones only at the       *)
(* point where a sequence is indexed.                                      *)
(***************************************************************************)
EXTENDS Integers, Sequences, FiniteSets, TLC

(***************************************************************************)
(* Bounds of the model.                                                    *)
(***************************************************************************)
\* longest call string handed to the indel stripper on its own
MaxCallLen == 5
\* number of times the stripper is re-applied to its own output
MaxPasses == 2
\* the worker's window sizes and batch size range over 0..Max
MaxUpstr == 1
MaxDownstr == 2
MaxBuffer == 1
\* pileup lines in one run of the worker
MaxLines == 3
\* longest call string of the one-line runs that check the counts
MaxCountLen == 4
\* alignment records in one run of the orientation normalizer
MaxReads == 2
\* pileup lines of the worker when the driver runs it
MaxDriverLines == 1

VARIABLES
    \* ---- the indel stripper on its own
    read_bases,        \* the call string as it stands (fields[4])
    strip_hist,        \* <<raw, stripped once, stripped twice, ...>>
    \* ---- _bam_to_allc_worker
    num_upstr_bases, num_downstr_bases, buffer_line_number,
    cur_chrom, seq, line_counts, total_line, out, cov_dict, mc_dict,
    written,           \* what output_file_handler has received
    wpc,               \* "idle" | "loop" | "done" | "error"
    consumed,          \* history: the pileup lines read so far
    emitted,           \* history: the accepted rows, each with its line's number
    loads,             \* history: the chromosomes the reference was asked for
    \* ---- _convert_bam_strandness
    in_bam,            \* the records not read yet
    out_bam,           \* the records written
    is_ct_func,        \* None | "hisat3n" | "bismark"
    npc,               \* "idle" | "loop" | "done" | "error"
    nerror,            \* the exception that ended the loop
    examined,          \* history: the records read so far, as they were read
    \* ---- bam_to_allc
    dpc,               \* the driver's position
    reference_fasta,   \* which of the FASTA file and its .fai exist
    bam,               \* the alignment input: records, idxstats names, .bai
    convert_bam_strandness, cpu,
    bam_path,          \* "in.bam" | "temp.bam"
    files,             \* the files the run has created and not removed
    derror             \* the exception that ended the run

stripVars == <<read_bases, strip_hist>>
workerVars == <<num_upstr_bases, num_downstr_bases, buffer_line_number,
                cur_chrom, seq, line_counts, total_line, out,
                cov_dict, mc_dict, written, wpc, consumed, emitted, loads>>
normVars == <<in_bam, out_bam, is_ct_func, npc, nerror, examined>>
driverVars == <<dpc, reference_fasta, bam, convert_bam_strandness, cpu, bam_path,
                files, derror>>
vars == <<stripVars, workerVars, normVars, driverVars>>

(***************************************************************************)
(* Python primitives.                                                      *)
(***************************************************************************)
\* the value None
None == "None"

\* s[start:stop] of Python: negative indices count from the end, and both
\* ends are clamped to the sequence
PySlice(s, start, stop) ==
    LET n == Len(s)
        norm(i) == IF i < 0 THEN (IF i + n < 0 THEN 0 ELSE i + n)
                   ELSE (IF i > n THEN n ELSE i)
        lo == norm(start)
        hi == norm(stop)
    IN  IF lo >= hi THEN << >> ELSE SubSeq(s, lo + 1, hi)

\* s.count(c)
RECURSIVE PyCount(_, _)
PyCount(s, c) ==
    IF s = << >> THEN 0
    ELSE (IF Head(s) = c THEN 1 ELSE 0) + PyCount(Tail(s), c)

Digits == {"0", "1", "2", "3", "4", "5", "6", "7", "8", "9"}

DigitVal(c) ==
    CASE c = "0" -> 0 [] c = "1" -> 1 [] c = "2" -> 2 [] c = "3" -> 3
      [] c = "4" -> 4 [] c = "5" -> 5 [] c = "6" -> 6 [] c = "7" -> 7
      [] c = "8" -> 8 [] c = "9" -> 9

\* int(s) of a string of characters; ValueError stands for the exception
\* int raises on an empty string or on a character that is no digit
ValueError == -1

RECURSIVE PyInt(_)
PyInt(s) ==
    IF s = << >> \/ \E i \in 1..Len(s) : s[i] \notin Digits THEN ValueError
    ELSE IF Len(s) = 1 THEN DigitVal(s[1])
    ELSE 10 * PyInt(SubSeq(s, 1, Len(s) - 1)) + DigitVal(s[Len(s)])

\* reversed(s)
PyReversed(s) == [i \in 1..Len(s) |-> s[Len(s) + 1 - i]]

\* s.upper()
UpperChar(c) ==
    CASE c = "a" -> "A" [] c = "c" -> "C" [] c = "g" -> "G" [] c = "t" -> "T"
      [] c = "n" -> "N" [] c = "r" -> "R" [] OTHER -> c

PyUpper(s) == [i \in 1..Len(s) |-> UpperChar(s[i])]

(***************************************************************************)
(* The indel stripper: _bam_to_allc_worker, "deal with indels".            *)
(***************************************************************************)
\* the inner "while True": int(read_bases[ind]) raises IndexError past the
\* end and ValueError on a non-digit; either ends the digit run
RECURSIVE DigitRunEnd(_, _)
DigitRunEnd(rb, ind) ==
    IF ind < Len(rb) /\ rb[ind + 1] \in Digits
    THEN DigitRunEnd(rb, ind + 1)
    ELSE ind

\* index = ind + indel_size
IndexAfterIndel_NoSkip(ind, indel_size) == ind

IndexAfterIndel_SkipOneLess(ind, indel_size) ==
    IF indel_size > 0 THEN ind + indel_size - 1 ELSE ind

IndexAfterIndel(ind, indel_size) == ind + indel_size

\* the outer "while index < len(read_bases)" and the slice after it
RECURSIVE StripLoop(_, _, _, _)
StripLoop(rb, index, prev_index, read_bases_no_indel) ==
    IF index < Len(rb)
    THEN IF rb[index + 1] = "+" \/ rb[index + 1] = "-"
         THEN LET ind == DigitRunEnd(rb, index + 1)
                  indel_size == PyInt(PySlice(rb, index + 1, ind))
              IN  IF indel_size = ValueError
                  THEN StripLoop(rb, index + 1, prev_index, read_bases_no_indel)
                  ELSE StripLoop(rb,
                                 IndexAfterIndel(ind, indel_size),
                                 IndexAfterIndel(ind, indel_size),
                                 read_bases_no_indel \o PySlice(rb, prev_index, index))
         ELSE StripLoop(rb, index + 1, prev_index, read_bases_no_indel)
    ELSE read_bases_no_indel \o PySlice(rb, prev_index, index)

StripIndel(rb) ==
    LET incons_basecalls == PyCount(rb, "+") + PyCount(rb, "-")
    IN  IF incons_basecalls > 0 THEN StripLoop(rb, 0, 0, << >>) ELSE rb

(***************************************************************************)
(* The reference: a FASTA file and its index (samtools faidx).             *)
(***************************************************************************)
\* chr1 is 200 bases long, soft-masked n except around the two sites at
\* 100 and 200; chr2 is the 6 bases CgaRGC
Chr1Base(i) ==
    CASE i = 100 -> "C" [] i = 101 -> "G" [] i = 102 -> "A"
      [] i = 198 -> "T" [] i = 199 -> "C" [] i = 200 -> "G"
      [] OTHER -> "n"

Chr1Line(k) == [j \in 1..50 |-> Chr1Base(50 * k + j)] \o <<"\n">>

Chr2Bases == <<"C", "g", "a", "R", "G", "C">>

FastaFile ==
    <<">", "c", "h", "r", "1", "\n">>
    \o Chr1Line(0) \o Chr1Line(1) \o Chr1Line(2) \o Chr1Line(3)
    \o <<">", "c", "h", "r", "2", "\n">>
    \o Chr2Bases \o <<"\n">>

\* _read_faidx: NAME -> LENGTH, OFFSET, LINEBASES, LINEWIDTH
fai_df ==
    [c \in {"chr1", "chr2"} |->
        IF c = "chr1"
        THEN [LENGTH |-> 200, OFFSET |-> 6, LINEBASES |-> 50, LINEWIDTH |-> 51]
        ELSE [LENGTH |-> 6, OFFSET |-> 216, LINEBASES |-> 6, LINEWIDTH |-> 7]]

\* the order of the chromosomes in the reference, which a sorted BAM follows
ChromRank(c) == IF c = "chr1" THEN 1 ELSE IF c = "chr2" THEN 2 ELSE 3

\* one iteration of "for line in f": the text from byte offset p up to and
\* including the next line terminator, or up to the end of the file
FastaLineAt(p) ==
    LET ends == {j \in (p + 1)..Len(FastaFile) : FastaFile[j] = "\n"}
        stop == IF ends = {} THEN Len(FastaFile)
                ELSE CHOOSE j \in ends : \A k \in ends : j <= k
    IN  SubSeq(FastaFile, p + 1, stop)

RECURSIVE FastaReadFrom(_, _, _)
FastaReadFrom(p, tail, sq) ==
    IF p >= Len(FastaFile) THEN sq
    ELSE LET line == FastaLineAt(p)
         IN  IF line[1] = ">" THEN sq
             ELSE FastaReadFrom(p + Len(line), tail, sq \o PySlice(line, 0, tail))

\* _get_chromosome_sequence_upper, evaluated once per chromosome of the index
ChromosomeSequenceUpper ==
    [query_chrom \in DOMAIN fai_df |->
        LET chrom_pointer == fai_df[query_chrom].OFFSET
            tail == fai_df[query_chrom].LINEBASES - fai_df[query_chrom].LINEWIDTH
        IN  PyUpper(FastaReadFrom(chrom_pointer, tail, << >>))]

get_chromosome_sequence_upper(query_chrom) == ChromosomeSequenceUpper[query_chrom]

(***************************************************************************)
(* _bam_to_allc_worker: one pileup line.                                   *)
(***************************************************************************)
complement == [b \in {"A", "T", "C", "G", "N"} |->
                 CASE b = "A" -> "T" [] b = "T" -> "A" [] b = "C" -> "G"
                   [] b = "G" -> "C" [] b = "N" -> "N"]

mc_sites == {"C", "G"}

\* KeyError of complement[base]
KeyError == <<"KeyError">>

\* seq[(pos - num_upstr_bases):(pos + num_downstr_bases + 1)], pos 0-based
ContextForward(sq, pos, up, down) == PySlice(sq, pos - up, pos + down + 1)

\* "".join(complement[base] for base in reversed(seq[pos - down : pos + up + 1]))
ContextReverse_NotReversed(sq, pos, up, down) ==
    LET window == PySlice(sq, pos - down, pos + up + 1)
    IN  IF \E i \in 1..Len(window) : window[i] \notin DOMAIN complement
        THEN KeyError
        ELSE [i \in 1..Len(window) |-> complement[window[i]]]

ContextReverse(sq, pos, up, down) ==
    LET window == PyReversed(PySlice(sq, pos - down, pos + up + 1))
    IN  IF \E i \in 1..Len(window) : window[i] \notin DOMAIN complement
        THEN KeyError
        ELSE [i \in 1..Len(window) |-> complement[window[i]]]

\* fields[4] as the counting code reads it: the call string after "deal with indels"
CallsCounted_Raw(bases) == bases

CallsCounted(bases) == StripIndel(bases)

\* unconverted_c and converted_c of the two branches
UnconvertedCount_AnyStrand(ref, calls) == PyCount(calls, ".") + PyCount(calls, ",")

UnconvertedCount(ref, calls) ==
    IF ref = "C" THEN PyCount(calls, ".") ELSE PyCount(calls, ",")

ConvertedCount(ref, calls) ==
    IF ref = "C" THEN PyCount(calls, "T") ELSE PyCount(calls, "a")

\* "if cov > 0 and len(context) == context_len"
EmissionGate_NoLengthCheck(cov, context, context_len) == cov > 0

EmissionGate(cov, context, context_len) == cov > 0 /\ Len(context) = context_len

\* cov_dict[context] += cov on a defaultdict(int)
DictAdd_Overwrite(d, k, v) ==
    [key \in DOMAIN d \cup {k} |-> IF key = k THEN v ELSE d[key]]

DictAdd(d, k, v) ==
    IF k \in DOMAIN d THEN [d EXCEPT ![k] = @ + v] ELSE d @@ (k :> v)

EmptyDict == [k \in {} |-> 0]

\* "out = ''" after the batch write
BufferAfterFlush_NotReset(buffer) == buffer

BufferAfterFlush(buffer) == << >>

\* "if line_counts > buffer_line_number"
BatchFull(n, limit) == n > limit

\* one row of the ALLC table: chrom, pos (1-based), strand, context,
\* unconverted count, coverage and the literal 1
AllcRow(chrom, pos, strand, context, unconverted_c, cov) ==
    [chrom |-> chrom, pos |-> pos + 1, strand |-> strand, context |-> context,
     mc |-> unconverted_c, cov |-> cov, one |-> 1]

\* the body of "for line in result_handle" for one line of the pileup
\* "if fields[0] != cur_chrom": the sequence the rest of the iteration reads
SeqForLine_LoadedOnce(chrom, cur, cached) ==
    IF cur = "" THEN get_chromosome_sequence_upper(chrom) ELSE cached

SeqForLine(chrom, cur, cached) ==
    IF chrom # cur THEN get_chromosome_sequence_upper(chrom) ELSE cached

ProcessLine(line) ==
    LET ref == UpperChar(line.ref)
        changed == line.chrom # cur_chrom
        sq == SeqForLine(line.chrom, cur_chrom, seq)
        up == num_upstr_bases
        down == num_downstr_bases
        context_len == up + 1 + down
        pos == line.pos - 1
        calls == CallsCounted(line.bases)
        context == IF ref = "C" THEN ContextForward(sq, pos, up, down)
                   ELSE ContextReverse(sq, pos, up, down)
        unconverted_c == UnconvertedCount(ref, calls)
        converted_c == ConvertedCount(ref, calls)
        cov == unconverted_c + converted_c
        row == AllcRow(line.chrom, pos, IF ref = "C" THEN "+" ELSE "-",
                       context, unconverted_c, cov)
    IN  /\ wpc = "loop"
        /\ total_line' = total_line + 1
        /\ consumed' = Append(consumed, line)
        /\ cur_chrom' = line.chrom
        /\ loads' = IF changed THEN Append(loads, line.chrom) ELSE loads
        /\ UNCHANGED <<num_upstr_bases, num_downstr_bases, buffer_line_number>>
        /\ IF changed /\ line.chrom \notin DOMAIN fai_df
           THEN \* fai_df.loc raises KeyError, which nothing catches
                /\ wpc' = "error"
                /\ UNCHANGED <<seq, line_counts, out, cov_dict, mc_dict, written, emitted>>
           ELSE /\ seq' = sq
                /\ wpc' = "loop"
                /\ IF ref \notin mc_sites \/ context = KeyError
                   THEN \* continue
                        UNCHANGED <<line_counts, out, cov_dict, mc_dict, written, emitted>>
                   ELSE IF EmissionGate(cov, context, context_len)
                   THEN /\ cov_dict' = DictAdd(cov_dict, context, cov)
                        /\ mc_dict' = DictAdd(mc_dict, context, unconverted_c)
                        /\ emitted' = Append(emitted, [row |-> row, line_no |-> total_line + 1])
                        /\ IF BatchFull(line_counts + 1, buffer_line_number)
                           THEN /\ written' = written \o Append(out, row)
                                /\ line_counts' = 0
                                /\ out' = BufferAfterFlush(Append(out, row))
                           ELSE /\ line_counts' = line_counts + 1
                                /\ out' = Append(out, row)
                                /\ UNCHANGED written
                   ELSE /\ UNCHANGED <<cov_dict, mc_dict, emitted>>
                        /\ IF BatchFull(line_counts, buffer_line_number)
                           THEN /\ written' = written \o out
                                /\ line_counts' = 0
                                /\ out' = BufferAfterFlush(out)
                           ELSE UNCHANGED <<line_counts, out, written>>

\* "if line_counts > 0" after the loop
FinalFlushDue(n) == n > 0

\* after the loop: the final write and the close of both handles
FinishWorker ==
    /\ wpc = "loop"
    /\ written' = IF FinalFlushDue(line_counts) THEN written \o out ELSE written
    /\ wpc' = "done"
    /\ UNCHANGED <<num_upstr_bases, num_downstr_bases, buffer_line_number,
                   cur_chrom, seq, line_counts, total_line, out,
                   cov_dict, mc_dict, consumed, emitted, loads>>

\* the state of the worker's locals before the loop
WorkerStart(up, down, buffer) ==
    /\ num_upstr_bases = up
    /\ num_downstr_bases = down
    /\ buffer_line_number = buffer
    /\ cur_chrom = ""
    /\ seq = None
    /\ line_counts = 0
    /\ total_line = 0
    /\ out = << >>
    /\ cov_dict = EmptyDict
    /\ mc_dict = EmptyDict
    /\ written = << >>
    /\ wpc = "loop"
    /\ consumed = << >>
    /\ emitted = << >>
    /\ loads = << >>

WorkerIdle ==
    /\ num_upstr_bases = 0
    /\ num_downstr_bases = 0
    /\ buffer_line_number = 0
    /\ cur_chrom = ""
    /\ seq = None
    /\ line_counts = 0
    /\ total_line = 0
    /\ out = << >>
    /\ cov_dict = EmptyDict
    /\ mc_dict = EmptyDict
    /\ written = << >>
    /\ wpc = "idle"
    /\ consumed = << >>
    /\ emitted = << >>
    /\ loads = << >>

(***************************************************************************)
(* _convert_bam_strandness.                                                *)
(***************************************************************************)
\* read.has_tag(tag)
has_tag(read, tag) == read[tag] # None

\* the first pass through "if is_ct_func is None": the function chosen, or
\* None where the code raises ValueError
DetectConvention(read) ==
    IF has_tag(read, "YZ") THEN "hisat3n"
    ELSE IF has_tag(read, "XG") THEN "bismark"
    ELSE None

\* is_ct_func after "if is_ct_func is None: ..."
ConventionFor_Redetected(current, read) == DetectConvention(read)

ConventionFor(current, read) ==
    IF current = None THEN DetectConvention(read) ELSE current

\* the tag is_ct_func reads with read.get_tag
TagOf(func) == IF func = "hisat3n" THEN "YZ" ELSE "XG"

\* _is_read_ct_conversion_hisat3n and _is_read_ct_conversion_bismark
is_read_ct_conversion(func, read) ==
    IF func = "hisat3n" THEN read.YZ = "+" ELSE read.XG = "CT"

\* the two branches of "if is_ct_func(read)"
SetOrientation_MateAlways(read, ct) ==
    [read EXCEPT !.is_forward = ct, !.mate_is_forward = ct]

SetOrientation(read, ct) ==
    [read EXCEPT !.is_forward = ct,
                 !.mate_is_forward = IF read.is_paired THEN ct ELSE @]

\* the body of "for read in in_bam" for the next record
NormStep ==
    /\ npc = "loop"
    /\ in_bam # << >>
    /\ LET read == Head(in_bam)
           func == ConventionFor(is_ct_func, read)
       IN  /\ in_bam' = Tail(in_bam)
           /\ examined' = Append(examined, read)
           /\ is_ct_func' = func
           /\ IF func = None
              THEN /\ npc' = "error"
                   /\ nerror' = "ValueError"
                   /\ UNCHANGED out_bam
              ELSE IF ~has_tag(read, TagOf(func))
              THEN \* read.get_tag raises KeyError
                   /\ npc' = "error"
                   /\ nerror' = "KeyError"
                   /\ UNCHANGED out_bam
              ELSE /\ out_bam' = Append(out_bam,
                                        SetOrientation(read, is_read_ct_conversion(func, read)))
                   /\ UNCHANGED <<npc, nerror>>

\* the end of the input: both files are closed
NormFinish ==
    /\ npc = "loop"
    /\ in_bam = << >>
    /\ npc' = "done"
    /\ UNCHANGED <<in_bam, out_bam, is_ct_func, nerror, examined>>

NormStart(reads) ==
    /\ in_bam = reads
    /\ out_bam = << >>
    /\ is_ct_func = None
    /\ npc = "loop"
    /\ nerror = None
    /\ examined = << >>

NormIdle ==
    /\ in_bam = << >>
    /\ out_bam = << >>
    /\ is_ct_func = None
    /\ npc = "idle"
    /\ nerror = None
    /\ examined = << >>

(***************************************************************************)
(* Inputs.                                                                 *)
(***************************************************************************)
\* the defaults of bam_to_allc and of the worker
DefaultUpstrBases == 0
DefaultDownstrBases == 2
DefaultBufferLineNumber == 100000

\* the reference base samtools mpileup -f prints in column 3: the base of
\* the FASTA file, in the file's own case
ReferenceBase(chrom, pos) ==
    IF chrom = "chr1" THEN Chr1Base(pos) ELSE Chr2Bases[pos]

PileupLine(chrom, pos, bases) ==
    [chrom |-> chrom, pos |-> pos, ref |-> ReferenceBase(chrom, pos), bases |-> bases]

\* the lines a pileup stream of the worker is made of
PileupLines ==
    { PileupLine("chr1", 100, <<".", ",", ".", "T", ".">>),
      PileupLine("chr1", 101, <<",", "a">>),
      PileupLine("chr1", 200, <<",", ",", "a">>),
      PileupLine("chr2", 1, <<".">>),
      PileupLine("chr2", 1, <<".", "+", "1", "T">>),
      PileupLine("chr2", 2, <<",">>),
      PileupLine("chr2", 3, <<".">>),
      PileupLine("chr2", 5, <<",", ",">>),
      PileupLine("chr2", 6, <<".", "T">>),
      PileupLine("chr2", 6, <<",">>) }

\* every string over the alphabet, up to a length
StringsUpTo(alphabet, n) == UNION {[1..k -> alphabet] : k \in 0..n}

StripAlphabet == {".", "T", "+", "-", "0", "1"}

SpecExampleCalls == <<".", ".", "+", "2", "A", "T", ".", ".">>

CallStrings == StringsUpTo(StripAlphabet, MaxCallLen) \cup {SpecExampleCalls}

CountAlphabet == {".", ",", "T", "a", "+", "-", "1"}

CountLines ==
    {PileupLine("chr1", p, b) : p \in {100, 200}, b \in StringsUpTo(CountAlphabet, MaxCountLen)}

\* an alignment record: its two conversion tags (None when absent) and the
\* three flag bits the normalizer reads or writes
Read(yz, xg, fwd, paired, mate_fwd) ==
    [YZ |-> yz, XG |-> xg, is_forward |-> fwd, is_paired |-> paired,
     mate_is_forward |-> mate_fwd]

\* no tag, one tag, or both tags with conflicting values
ReadTags ==
    { <<None, None>>, <<"+", None>>, <<"-", None>>, <<None, "CT">>, <<None, "GA">>,
      <<"+", "GA">>, <<"-", "CT">> }

Reads ==
    {Read(t[1], t[2], f, p, m) : t \in ReadTags, f \in BOOLEAN, p \in BOOLEAN, m \in BOOLEAN}

ReadStreams == UNION {[1..n -> Reads] : n \in 0..MaxReads}

\* the alignment inputs bam_to_allc is run on
DriverReads ==
    { << >>,
      <<Read("+", None, FALSE, TRUE, FALSE)>>,
      <<Read(None, None, TRUE, FALSE, FALSE)>>,
      <<Read(None, "GA", TRUE, TRUE, TRUE), Read("+", None, TRUE, FALSE, TRUE)>> }

DriverChroms == { {"chr1"}, {"chr1", "chr2"}, {"chr1", "chrU"}, {"chrU", "chrV"} }

DriverLines ==
    { PileupLine("chr1", 100, <<".", ",", ".", "T", ".">>),
      PileupLine("chr2", 3, <<".">>),
      PileupLine("chr2", 5, <<",">>) }

(***************************************************************************)
(* bam_to_allc.                                                            *)
(***************************************************************************)
NoError == [type |-> None, what |-> None, names |-> {}]

Raised(type, what, names) == [type |-> type, what |-> what, names |-> names]

\* "Check fasta index": the two existence checks and _read_faidx
CheckReference ==
    /\ dpc = "start"
    /\ IF ~reference_fasta.fasta
       THEN /\ dpc' = "error"
            /\ derror' = Raised("FileNotFoundError", "Reference fasta not found", {})
       ELSE IF ~reference_fasta.fai
       THEN /\ dpc' = "error"
            /\ derror' = Raised("FileNotFoundError", "Reference fasta not indexed", {})
       ELSE /\ dpc' = IF convert_bam_strandness THEN "convert" ELSE "index"
            /\ UNCHANGED derror
    /\ UNCHANGED <<reference_fasta, bam, convert_bam_strandness, cpu, bam_path, files>>
    /\ UNCHANGED <<stripVars, workerVars, normVars>>

\* the call of _convert_bam_strandness: both files are opened, the output
\* one (the temporary BAM) for writing
StartConvert ==
    /\ dpc = "convert"
    /\ npc = "idle"
    /\ files' = files \cup {"temp.bam"}
    /\ in_bam' = bam.reads
    /\ out_bam' = << >>
    /\ is_ct_func' = None
    /\ npc' = "loop"
    /\ nerror' = None
    /\ examined' = << >>
    /\ UNCHANGED <<dpc, reference_fasta, bam, convert_bam_strandness, cpu, bam_path, derror>>
    /\ UNCHANGED <<stripVars, workerVars>>

ConvertStep ==
    /\ dpc = "convert"
    /\ (NormStep \/ NormFinish)
    /\ UNCHANGED <<stripVars, workerVars, driverVars>>

\* the return of _convert_bam_strandness, or the exception it let through
EndConvert ==
    /\ dpc = "convert"
    /\ npc \in {"done", "error"}
    /\ IF npc = "done"
       THEN /\ bam_path' = "temp.bam"
            /\ dpc' = "index"
            /\ UNCHANGED derror
       ELSE /\ dpc' = "error"
            /\ derror' = Raised(nerror, "conversion type tag", {})
            /\ UNCHANGED bam_path
    /\ UNCHANGED <<normVars, reference_fasta, bam, convert_bam_strandness, cpu, files>>
    /\ UNCHANGED <<stripVars, workerVars>>

BaiOf(path) == IF path = "in.bam" THEN "in.bam.bai" ELSE "temp.bam.bai"

\* pathlib.Path(bam_path + ".bai").exists()
BaiExists(path) ==
    IF path = "in.bam" THEN bam.bai \/ "in.bam.bai" \in files
    ELSE "temp.bam.bai" \in files

\* "if not ...bai.exists(): subprocess.check_call(samtools index)", which
\* writes the index or fails
IndexBam ==
    /\ dpc = "index"
    /\ IF BaiExists(bam_path)
       THEN /\ dpc' = "check_chroms"
            /\ UNCHANGED <<files, derror>>
       ELSE \E ok \in BOOLEAN :
               IF ok
               THEN /\ files' = files \cup {BaiOf(bam_path)}
                    /\ dpc' = "check_chroms"
                    /\ UNCHANGED derror
               ELSE /\ dpc' = "error"
                    /\ derror' = Raised("CalledProcessError", "samtools index", {})
                    /\ UNCHANGED files
    /\ UNCHANGED <<reference_fasta, bam, convert_bam_strandness, cpu, bam_path>>
    /\ UNCHANGED <<stripVars, workerVars, normVars>>

\* unknown_chroms = [i for i in bam_chroms_index if i not in fai_df.index]
UnknownChroms_None(bam_chroms_index) == {}

UnknownChroms(bam_chroms_index) == bam_chroms_index \ DOMAIN fai_df

\* "check chromosome between BAM and FASTA"
CheckChroms ==
    /\ dpc = "check_chroms"
    /\ LET unknown_chroms == UnknownChroms(bam.chroms)
       IN  IF unknown_chroms # {}
           THEN /\ dpc' = "error"
                /\ derror' = Raised("IndexError", "BAM file contain unknown chromosomes",
                                    unknown_chroms)
           ELSE /\ dpc' = "output_path"
                /\ UNCHANGED derror
    /\ UNCHANGED <<reference_fasta, bam, convert_bam_strandness, cpu, bam_path, files>>
    /\ UNCHANGED <<stripVars, workerVars, normVars>>

\* the regions, the output path, and then NotImplementedError for cpu > 1 or
\* the call of the worker, which opens the output file and the pileup pipe
StartWorker ==
    /\ dpc = "output_path"
    /\ IF cpu > 1
       THEN /\ dpc' = "error"
            /\ derror' = Raised("NotImplementedError", "cpu > 1", {})
            /\ UNCHANGED <<files, workerVars>>
       ELSE /\ dpc' = "worker"
            /\ files' = files \cup {"allc.tsv.gz"}
            /\ num_upstr_bases' = DefaultUpstrBases
            /\ num_downstr_bases' = DefaultDownstrBases
            /\ buffer_line_number' = DefaultBufferLineNumber
            /\ wpc' = "loop"
            /\ UNCHANGED <<cur_chrom, seq, line_counts, total_line, out, cov_dict,
                           mc_dict, written, consumed, emitted, loads, derror>>
    /\ UNCHANGED <<reference_fasta, bam, convert_bam_strandness, cpu, bam_path>>
    /\ UNCHANGED <<stripVars, normVars>>

\* the worker's loop on the pileup of the alignment input
WorkerReadLine ==
    /\ dpc = "worker"
    /\ Len(consumed) < MaxDriverLines
    /\ \E line \in DriverLines : line.chrom \in bam.chroms /\ ProcessLine(line)
    /\ UNCHANGED <<stripVars, normVars, driverVars>>

\* the end of the worker: the last write, the close, and tabix
WorkerEndOfStream ==
    /\ dpc = "worker"
    /\ FinishWorker
    /\ files' = files \cup {"allc.tsv.gz.tbi"}
    /\ UNCHANGED <<dpc, reference_fasta, bam, convert_bam_strandness, cpu, bam_path, derror>>
    /\ UNCHANGED <<stripVars, normVars>>

\* "clean up temp bam" and the return
CleanUp ==
    /\ dpc = "worker"
    /\ wpc = "done"
    /\ files' = IF convert_bam_strandness
                THEN files \ {bam_path, BaiOf(bam_path)}
                ELSE files
    /\ dpc' = "done"
    /\ UNCHANGED <<reference_fasta, bam, convert_bam_strandness, cpu, bam_path, derror>>
    /\ UNCHANGED <<stripVars, workerVars, normVars>>

DriverIdle ==
    /\ dpc = "idle"
    /\ reference_fasta = [fasta |-> TRUE, fai |-> TRUE]
    /\ bam = [reads |-> << >>, chroms |-> {}, bai |-> TRUE]
    /\ convert_bam_strandness = FALSE
    /\ cpu = 1
    /\ bam_path = "in.bam"
    /\ files = {}
    /\ derror = NoError

(***************************************************************************)
(* Specifications.                                                         *)
(***************************************************************************)
StripIdle == read_bases = None /\ strip_hist = << >>

\* the indel stripper applied to a call string, and again to its result
InitStrip ==
    /\ read_bases \in CallStrings
    /\ strip_hist = <<read_bases>>
    /\ WorkerIdle
    /\ NormIdle
    /\ DriverIdle

StripPass ==
    /\ strip_hist # << >>
    /\ Len(strip_hist) <= MaxPasses
    /\ read_bases' = StripIndel(read_bases)
    /\ strip_hist' = Append(strip_hist, read_bases')
    /\ UNCHANGED <<workerVars, normVars, driverVars>>

NextStrip == StripPass

SpecStrip == InitStrip /\ [][NextStrip]_vars

\* the worker on a pileup stream, for every window and batch size
Init ==
    /\ StripIdle
    /\ NormIdle
    /\ DriverIdle
    /\ \E up \in 0..MaxUpstr, down \in 0..MaxDownstr, buffer \in 0..MaxBuffer :
          WorkerStart(up, down, buffer)

ReadLine ==
    /\ Len(consumed) < MaxLines
    /\ \E line \in PileupLines : ProcessLine(line)
    /\ UNCHANGED <<stripVars, normVars, driverVars>>

EndOfStream == FinishWorker /\ UNCHANGED <<stripVars, normVars, driverVars>>

Next == ReadLine \/ EndOfStream

Spec == Init /\ [][Next]_vars

\* the worker with its default sizes on a one-line stream, for every call string
InitCount ==
    /\ StripIdle
    /\ NormIdle
    /\ DriverIdle
    /\ WorkerStart(DefaultUpstrBases, DefaultDownstrBases, DefaultBufferLineNumber)

ReadCountLine ==
    /\ consumed = << >>
    /\ \E line \in CountLines : ProcessLine(line)
    /\ UNCHANGED <<stripVars, normVars, driverVars>>

NextCount == ReadCountLine \/ EndOfStream

SpecCount == InitCount /\ [][NextCount]_vars

\* the orientation normalizer on a stream of alignment records
InitNorm ==
    /\ StripIdle
    /\ WorkerIdle
    /\ DriverIdle
    /\ \E reads \in ReadStreams : NormStart(reads)

NormRead == NormStep /\ UNCHANGED <<stripVars, workerVars, driverVars>>

NormEnd == NormFinish /\ UNCHANGED <<stripVars, workerVars, driverVars>>

NextNorm == NormRead \/ NormEnd

SpecNorm == InitNorm /\ [][NextNorm]_vars

\* bam_to_allc on a reference and an alignment input, with cpu 1 or 2
InitBam ==
    /\ StripIdle
    /\ WorkerIdle
    /\ NormIdle
    /\ dpc = "start"
    /\ reference_fasta \in [fasta : BOOLEAN, fai : BOOLEAN]
    /\ bam \in [reads : DriverReads, chroms : DriverChroms, bai : BOOLEAN]
    /\ convert_bam_strandness \in BOOLEAN
    /\ cpu \in {1, 2}
    /\ bam_path = "in.bam"
    /\ files = {}
    /\ derror = NoError

NextBam ==
    \/ CheckReference
    \/ StartConvert
    \/ ConvertStep
    \/ EndConvert
    \/ IndexBam
    \/ CheckChroms
    \/ StartWorker
    \/ WorkerReadLine
    \/ WorkerEndOfStream
    \/ CleanUp

SpecBam == InitBam /\ [][NextBam]_vars

(***************************************************************************)
(* Definitions the properties are stated with.                             *)
(***************************************************************************)
Signs == {"+", "-"}

\* the reference left-to-right scan of a call string: at a sign followed by
\* a digit, the sign, the digit run n and the next n characters are dropped;
\* any other character is copied
RECURSIVE RefDigitRun(_)
RefDigitRun(s) ==
    IF s # << >> /\ Head(s) \in Digits THEN <<Head(s)>> \o RefDigitRun(Tail(s)) ELSE << >>

RECURSIVE RefDecimal(_)
RefDecimal(ds) ==
    IF ds = << >> THEN 0
    ELSE 10 * RefDecimal(SubSeq(ds, 1, Len(ds) - 1)) + DigitVal(ds[Len(ds)])

RefDrop(s, k) == IF k >= Len(s) THEN << >> ELSE SubSeq(s, k + 1, Len(s))

RECURSIVE RefScan(_)
RefScan(s) ==
    IF s = << >> THEN << >>
    ELSE IF Head(s) \in Signs /\ Len(s) >= 2 /\ s[2] \in Digits
    THEN LET run == RefDigitRun(Tail(s))
         IN  RefScan(RefDrop(s, 1 + Len(run) + RefDecimal(run)))
    ELSE <<Head(s)>> \o RefScan(Tail(s))

\* a is b with some characters left out, the others in b's order
RECURSIVE IsSubsequence(_, _)
IsSubsequence(a, b) ==
    IF a = << >> THEN TRUE
    ELSE IF b = << >> THEN FALSE
    ELSE IF Head(a) = Head(b) THEN IsSubsequence(Tail(a), Tail(b))
    ELSE IsSubsequence(a, Tail(b))

\* a sign directly followed by a digit somewhere in s
HasAnnotationStart(s) ==
    \E i \in 1..(Len(s) - 1) : s[i] \in Signs /\ s[i + 1] \in Digits

\* the pileup line an emitted row came from
LineOf(e) == consumed[e.line_no]

Rows(es) == [i \in 1..Len(es) |-> es[i].row]

\* the counts the claim's rule gives on a call string
RuleMethylated(strand, calls) ==
    IF strand = "+" THEN PyCount(calls, ".") ELSE PyCount(calls, ",")

RuleCoverage(strand, calls) ==
    RuleMethylated(strand, calls)
    + (IF strand = "+" THEN PyCount(calls, "T") ELSE PyCount(calls, "a"))

(***************************************************************************)
(* C1                                                                      *)
(***************************************************************************)
\* C1 as stated: every emitted row's counts are those of the RAW call string
\* of its pileup line ('.'/'T' on a '+' row, ','/'a' on a '-' row), with
\* coverage > 0 and methylatedCount <= coverage.
C1_CountsOverRawCalls ==
    \A i \in 1..Len(emitted) :
        LET r == emitted[i].row
            raw == LineOf(emitted[i]).bases
        IN  /\ r.mc = RuleMethylated(r.strand, raw)
            /\ r.cov = RuleCoverage(r.strand, raw)
            /\ r.cov > 0
            /\ r.mc <= r.cov

\* C1 amended: every emitted row's counts are those of the call string of
\* its pileup line with the indel annotations removed; coverage > 0 and
\* methylatedCount <= coverage.
C1_CountsOverStrippedCalls ==
    \A i \in 1..Len(emitted) :
        LET r == emitted[i].row
            calls == RefScan(LineOf(emitted[i]).bases)
        IN  /\ r.strand \in {"+", "-"}
            /\ r.mc = RuleMethylated(r.strand, calls)
            /\ r.cov = RuleCoverage(r.strand, calls)
            /\ r.cov > 0
            /\ r.mc <= r.cov

\* C1 witness: a row was emitted from a line whose raw call string holds an
\* inserted T or a deleted a that the stripped string does not
C1_Witness ==
    \E i \in 1..Len(emitted) :
        LET raw == LineOf(emitted[i]).bases
        IN  \/ /\ emitted[i].row.strand = "+"
               /\ PyCount(raw, "T") > PyCount(RefScan(raw), "T")
            \/ /\ emitted[i].row.strand = "-"
               /\ PyCount(raw, "a") > PyCount(RefScan(raw), "a")

(***************************************************************************)
(* C2                                                                      *)
(***************************************************************************)
SiteRef(line) == UpperChar(line.ref)

\* the 0-based window [start, stop) of a site, as the design states it
WindowStart(line) ==
    IF SiteRef(line) = "C" THEN line.pos - 1 - num_upstr_bases
    ELSE line.pos - 1 - num_downstr_bases

WindowStop(line) ==
    IF SiteRef(line) = "C" THEN line.pos + num_downstr_bases
    ELSE line.pos + num_upstr_bases

WindowTruncated(line) ==
    WindowStart(line) < 0 \/ WindowStop(line) > fai_df[line.chrom].LENGTH

ZeroCoverage(line) ==
    RuleCoverage(IF SiteRef(line) = "C" THEN "+" ELSE "-", RefScan(line.bases)) = 0

FailsGate(line) ==
    SiteRef(line) \notin {"C", "G"} \/ ZeroCoverage(line) \/ WindowTruncated(line)

C2_RowsPassGate ==
    \A i \in 1..Len(emitted) :
        /\ SiteRef(LineOf(emitted[i])) \in {"C", "G"}
        /\ emitted[i].row.cov > 0
        /\ Len(emitted[i].row.context) = num_upstr_bases + 1 + num_downstr_bases
        /\ ~FailsGate(LineOf(emitted[i]))

C2_FailedRecordSkipped ==
    (Len(consumed') = Len(consumed) + 1 /\ FailsGate(consumed'[Len(consumed')]))
        => /\ emitted' = emitted
           /\ cov_dict' = cov_dict
           /\ mc_dict' = mc_dict
           /\ written' \o out' = written \o out
           /\ wpc' = "loop"

\* C2: every emitted row comes from a record with refBase in {C, G}, has
\* coverage > 0 and a context of length upstream + 1 + downstream; a record
\* with another ref base, zero coverage or a window truncated at either end
\* (a negative start included) emits no row, leaves the per-context
\* statistics as they were, and the loop goes on.
C2_EmissionGate == [](C2_RowsPassGate) /\ [][C2_FailedRecordSkipped]_vars

\* C2 witness: a row was emitted, and a C/G record with coverage whose
\* window starts before the chromosome, and one whose window ends after it,
\* were read without emitting one
C2_Witness ==
    /\ wpc = "loop"
    /\ emitted # << >>
    /\ \E i \in 1..Len(consumed) :
          /\ SiteRef(consumed[i]) \in {"C", "G"}
          /\ ~ZeroCoverage(consumed[i])
          /\ WindowStart(consumed[i]) < 0
          /\ \A k \in 1..Len(emitted) : emitted[k].line_no # i
    /\ \E i \in 1..Len(consumed) :
          /\ SiteRef(consumed[i]) \in {"C", "G"}
          /\ ~ZeroCoverage(consumed[i])
          /\ WindowStop(consumed[i]) > fai_df[consumed[i].chrom].LENGTH
          /\ \A k \in 1..Len(emitted) : emitted[k].line_no # i

(***************************************************************************)
(* C3                                                                      *)
(***************************************************************************)
\* line a comes strictly before line b in (chrom, pos) order
Before(a, b) ==
    \/ ChromRank(a.chrom) < ChromRank(b.chrom)
    \/ (a.chrom = b.chrom /\ a.pos < b.pos)

StrictlySorted(ls) == \A i \in 1..(Len(ls) - 1) : Before(ls[i], ls[i + 1])

\* C3: the rows written to the sink (batch writes, then the final write) are
\* the accepted rows, each once, in input order and at most one per pileup
\* line; so for input strictly sorted by (chrom, pos) the written rows are
\* strictly ascending by (chrom, pos) and no two share (chrom, pos, strand).
C3_WrittenIsAccepted ==
    /\ wpc = "loop" => written \o out = Rows(emitted)
    /\ wpc = "done" => written = Rows(emitted)
    /\ \A i \in 1..Len(emitted) :
          /\ emitted[i].line_no \in 1..Len(consumed)
          /\ emitted[i].row.chrom = LineOf(emitted[i]).chrom
          /\ emitted[i].row.pos = LineOf(emitted[i]).pos
    /\ \A i \in 1..(Len(emitted) - 1) : emitted[i].line_no < emitted[i + 1].line_no
    /\ StrictlySorted(consumed) =>
          /\ StrictlySorted(written)
          /\ \A i, j \in 1..Len(written) :
                (i # j) => <<written[i].chrom, written[i].pos, written[i].strand>>
                           # <<written[j].chrom, written[j].pos, written[j].strand>>

\* C3 witness: a sorted run ended with three rows written, two of them by a
\* batch write and the third by the final write
C3_Witness ==
    /\ wpc = "done"
    /\ buffer_line_number = 1
    /\ StrictlySorted(consumed)
    /\ Len(written) = 3
    /\ Len(out) = 1

(***************************************************************************)
(* C6                                                                      *)
(***************************************************************************)
ForwardScenarioLine == PileupLine("chr1", 100, <<".", ",", ".", "T", ".">>)

ForwardScenarioRun ==
    /\ num_upstr_bases = 0
    /\ num_downstr_bases = 2
    /\ consumed = <<ForwardScenarioLine>>
    /\ wpc = "done"

\* C6 as stated: the line (chr1, 100, C, ".,.T.") with upstream 0 and
\* downstream 2 yields exactly the row (chr1, 100, +, CGA, 4, 5, 1).
C6_ForwardScenarioAsStated ==
    ForwardScenarioRun =>
        written = <<[chrom |-> "chr1", pos |-> 100, strand |-> "+",
                     context |-> <<"C", "G", "A">>, mc |-> 4, cov |-> 5, one |-> 1]>>

\* C6 amended: that line yields exactly the row (chr1, 100, +, CGA, 3, 4, 1):
\* the call string holds three '.' and one 'T'; its ',' is not counted.
C6_ForwardScenario ==
    ForwardScenarioRun =>
        written = <<[chrom |-> "chr1", pos |-> 100, strand |-> "+",
                     context |-> <<"C", "G", "A">>, mc |-> 3, cov |-> 4, one |-> 1]>>

\* C6 witness: the scenario's run has ended
C6_Witness == ForwardScenarioRun /\ Len(written) = 1

(***************************************************************************)
(* C7                                                                      *)
(***************************************************************************)
ReverseScenarioLine == PileupLine("chr1", 200, <<",", ",", "a">>)

ReverseScenarioRun ==
    /\ num_upstr_bases = 0
    /\ num_downstr_bases = 2
    /\ consumed = <<ReverseScenarioLine>>
    /\ wpc = "done"

\* C7 as stated: the line (chr1, 200, G, ",,a") with upstream 0, downstream 2
\* and reference bases 198-200 = TCG yields the row (chr1, 200, -, CGC, 2, 3, 1).
C7_ReverseScenarioAsStated ==
    ReverseScenarioRun =>
        written = <<[chrom |-> "chr1", pos |-> 200, strand |-> "-",
                     context |-> <<"C", "G", "C">>, mc |-> 2, cov |-> 3, one |-> 1]>>

\* C7 amended: that line yields the row (chr1, 200, -, CGA, 2, 3, 1), CGA
\* being the complement of the reversed reference window 198-200 = TCG.
C7_ReverseScenario ==
    ReverseScenarioRun =>
        /\ SubSeq(seq, 198, 200) = <<"T", "C", "G">>
        /\ written = <<[chrom |-> "chr1", pos |-> 200, strand |-> "-",
                        context |-> <<"C", "G", "A">>, mc |-> 2, cov |-> 3, one |-> 1]>>

\* C7 witness: the scenario's run has ended
C7_Witness == ReverseScenarioRun /\ Len(written) = 1

(***************************************************************************)
(* C4                                                                      *)
(***************************************************************************)
Stripped(k) == strip_hist[k + 1]

\* C4 as stated: stripping is idempotent on every call string, keeps the
\* order of the characters it keeps, and turns "..+2AT.." into "....".
C4_IdempotentAsStated ==
    /\ Len(strip_hist) >= 2 =>
          /\ IsSubsequence(Stripped(1), Stripped(0))
          /\ Stripped(0) = SpecExampleCalls => Stripped(1) = <<".", ".", ".", ".">>
    /\ Len(strip_hist) >= 3 => Stripped(2) = Stripped(1)

\* C4 amended: stripping keeps the order of the characters it keeps, turns
\* "..+2AT.." into "....", and is idempotent on every call string whose
\* stripped form holds no '+' or '-' directly followed by a digit.
C4_OrderAndConditionalIdempotence ==
    /\ Len(strip_hist) >= 2 =>
          /\ IsSubsequence(Stripped(1), Stripped(0))
          /\ Stripped(0) = SpecExampleCalls => Stripped(1) = <<".", ".", ".", ".">>
    /\ (Len(strip_hist) >= 3 /\ ~HasAnnotationStart(Stripped(1)))
          => Stripped(2) = Stripped(1)

\* C4 witness: the spec's example was stripped twice
C4_Witness ==
    /\ Len(strip_hist) = 3
    /\ Stripped(0) = SpecExampleCalls
    /\ Stripped(1) # Stripped(0)
    /\ Stripped(2) = Stripped(1)

(***************************************************************************)
(* C9                                                                      *)
(***************************************************************************)
\* C9: on every call string the stripper ends with a string, the one the
\* reference left-to-right scan gives: a sign followed by digits n goes with
\* its digits and the next n characters (fewer at the end of the string), a
\* sign not followed by a digit stays, every other character is copied.
C9_StripperIsReferenceScan ==
    \A k \in 1..(Len(strip_hist) - 1) :
        /\ strip_hist[k + 1] \in Seq(StripAlphabet \cup {"A"})
        /\ strip_hist[k + 1] = RefScan(strip_hist[k])

\* C9 witness: a string with a literal sign, an annotation and an annotation
\* whose length runs past the end of the string was stripped
C9_Witness ==
    /\ Len(strip_hist) >= 2
    /\ Stripped(0) = <<"+", ".", "-", "1", "T">>
    /\ Stripped(1) = <<"+", ".">>

(***************************************************************************)
(* C5                                                                      *)
(***************************************************************************)
\* the convention the first record examined stands for
FirstRecordConvention ==
    IF examined[1].YZ # None THEN "hisat3n"
    ELSE IF examined[1].XG # None THEN "bismark"
    ELSE None

\* the record is of the C-to-T kind under the first record's convention
DenotesCT(read) ==
    \/ (FirstRecordConvention = "hisat3n" /\ read.YZ = "+")
    \/ (FirstRecordConvention = "bismark" /\ read.XG = "CT")

\* C5: every record written is forward, with a forward mate flag if paired,
\* when its tag denotes C-to-T under the detected convention, and reverse,
\* with a reverse mate flag if paired, for any other tag value, whatever
\* the orientations were; an unpaired record keeps its mate flag; the tags
\* and the paired flag are written as read.
C5_OrientationFollowsTag ==
    /\ Len(out_bam) <= Len(examined)
    /\ \A i \in 1..Len(out_bam) :
          LET r == examined[i]
              w == out_bam[i]
          IN  /\ w.is_forward = DenotesCT(r)
              /\ r.is_paired => w.mate_is_forward = DenotesCT(r)
              /\ ~r.is_paired => w.mate_is_forward = r.mate_is_forward
              /\ w.YZ = r.YZ /\ w.XG = r.XG /\ w.is_paired = r.is_paired

\* C5 witness: a paired G-to-A record read forward with a forward mate, and
\* an unpaired C-to-T record read reverse, have both been written
C5_Witness ==
    /\ Len(out_bam) = 2
    /\ examined[1] = Read(None, "GA", TRUE, TRUE, TRUE)
    /\ out_bam[1] = Read(None, "GA", FALSE, TRUE, FALSE)
    /\ examined[2] = Read(None, "CT", FALSE, FALSE, FALSE)
    /\ out_bam[2] = Read(None, "CT", TRUE, FALSE, FALSE)

(***************************************************************************)
(* C10                                                                     *)
(***************************************************************************)
C10_ConventionOfFirstRecord ==
    /\ examined = << >> => (is_ct_func = None /\ out_bam = << >>)
    /\ examined # << >> => is_ct_func = FirstRecordConvention
    /\ (examined # << >> /\ FirstRecordConvention = None) =>
          /\ npc = "error"
          /\ nerror = "ValueError"
          /\ out_bam = << >>
          /\ Len(examined) = 1
    /\ nerror = "ValueError" => (examined # << >> /\ FirstRecordConvention = None)

C10_ConventionFrozen == (is_ct_func # None) => (is_ct_func' = is_ct_func)

\* C10: the tag convention is chosen once, from the first record examined
\* (YZ if it has one, otherwise XG), and never changes afterwards whatever
\* tags later records carry; a first record with neither tag ends the
\* normalizer with the unsupported-tag error before anything is written.
C10_SettleOnce == [](C10_ConventionOfFirstRecord) /\ [][C10_ConventionFrozen]_vars

\* C10 witness: the convention is bismark's, from a first record with XG
\* only, after a second record that carries a YZ tag has been written
C10_Witness ==
    /\ Len(out_bam) = 2
    /\ examined[1].YZ = None
    /\ examined[2].YZ # None
    /\ is_ct_func = "bismark"

(***************************************************************************)
(* C8                                                                      *)
(***************************************************************************)
NoRecordProcessed == examined = << >> /\ out_bam = << >>

NoPileupStreamed == wpc = "idle" /\ consumed = << >>

NoPartialOutput == "allc.tsv.gz" \notin files /\ "temp.bam" \notin files

MissingReference == ~reference_fasta.fasta \/ ~reference_fasta.fai

ChromMismatch == (bam.chroms \ DOMAIN fai_df) # {}

\* C8 as stated: a missing reference file, a missing reference index, an
\* unindexed alignment input and an alignment chromosome absent from the
\* index are each fatal, before any record processing or pileup streaming
\* and with no ALLC file and no temporary BAM, also with normalization on;
\* the chromosome error names the offending chromosomes.
C8_FatalPreconditionsAsStated ==
    /\ (MissingReference \/ ~bam.bai \/ ChromMismatch) =>
          /\ dpc # "done"
          /\ NoRecordProcessed
          /\ NoPileupStreamed
          /\ NoPartialOutput
    /\ derror.type = "IndexError" => derror.names = bam.chroms \ DOMAIN fai_df

\* C8 amended: a missing reference file or index is fatal before any record
\* is processed and with nothing created; a chromosome absent from the
\* index is fatal before the pileup is streamed and with no ALLC file, the
\* error naming the offending chromosomes, but with normalization on the
\* records have been rewritten by then and the temporary BAM stays; an
\* unindexed alignment input is not fatal: it is indexed with samtools
\* index, and only a failure of that command ends the run.
C8_FatalPreconditions ==
    /\ MissingReference =>
          /\ dpc \in {"start", "error"}
          /\ NoRecordProcessed
          /\ NoPileupStreamed
          /\ files = {}
          /\ dpc = "error" => derror.type = "FileNotFoundError"
    /\ ChromMismatch =>
          /\ dpc # "done"
          /\ NoPileupStreamed
          /\ "allc.tsv.gz" \notin files
          /\ ~convert_bam_strandness => (NoRecordProcessed /\ "temp.bam" \notin files)
    /\ derror.type = "IndexError" =>
          /\ ChromMismatch
          /\ derror.names = bam.chroms \ DOMAIN fai_df
    /\ (dpc = "error" /\ ~MissingReference /\ ~ChromMismatch) =>
          derror.type \in {"ValueError", "KeyError", "CalledProcessError",
                           "NotImplementedError"}
    /\ derror.type = "CalledProcessError" => ~BaiExists(bam_path)
    /\ (dpc = "error" /\ derror.type \in {"ValueError", "KeyError"}) =>
          convert_bam_strandness

\* C8 witness: an unindexed input was indexed by the run, which then ended
\* on a chromosome the reference does not have, before any pileup line
C8_Witness ==
    /\ dpc = "error"
    /\ derror.type = "IndexError"
    /\ derror.names = {"chrU", "chrV"}
    /\ ~bam.bai
    /\ "in.bam.bai" \in files
    /\ NoPileupStreamed

(***************************************************************************)
(* C11                                                                     *)
(***************************************************************************)
\* the reference sequence of a chromosome, upper-cased, read off the bases
\* themselves and not through the index
RefSeqOf(c) == [i \in 1..fai_df[c].LENGTH |-> UpperChar(ReferenceBase(c, i))]

\* the chromosome of each line that differs from the chromosome of the line
\* before it; the first line differs from no line
RECURSIVE ChromRuns(_)
ChromRuns(lines) ==
    IF lines = << >> THEN << >>
    ELSE LET n == Len(lines)
             front == SubSeq(lines, 1, n - 1)
         IN  IF n = 1 \/ lines[n].chrom # lines[n - 1].chrom
             THEN Append(ChromRuns(front), lines[n].chrom)
             ELSE ChromRuns(front)

\* the context of a site on the reference of its own chromosome
RefContext(line) ==
    LET window == SubSeq(RefSeqOf(line.chrom), WindowStart(line) + 1, WindowStop(line))
        n == Len(window)
    IN  IF SiteRef(line) = "C" THEN window
        ELSE [j \in 1..n |->
                 CASE window[n + 1 - j] = "A" -> "T" [] window[n + 1 - j] = "T" -> "A"
                   [] window[n + 1 - j] = "C" -> "G" [] window[n + 1 - j] = "G" -> "C"
                   [] OTHER -> "N"]

\* C11: for any sequence of pileup lines, sorted or not: the reference was
\* loaded exactly once per line whose chromosome differs from that of the
\* line before (the first line, re-entry into an earlier chromosome and
\* lines whose ref base is not C/G included) and never between consecutive
\* lines of one chromosome; the cache holds nothing or the whole sequence of
\* one chromosome, which after every line is the chromosome of that line;
\* and every context that was read is the window on the reference of the
\* record's own chromosome.
C11_CacheCoherence ==
    /\ loads = ChromRuns(consumed)
    /\ consumed = << >> => seq = None
    /\ (consumed # << >> /\ wpc # "error") =>
          /\ cur_chrom = consumed[Len(consumed)].chrom
          /\ \E c \in DOMAIN fai_df : seq = RefSeqOf(c)
          /\ seq = RefSeqOf(cur_chrom)
    /\ \A i \in 1..Len(emitted) :
          /\ emitted[i].row.chrom = LineOf(emitted[i]).chrom
          /\ emitted[i].row.context = RefContext(LineOf(emitted[i]))

\* C11 witness: an unsorted stream that leaves chr1 for a line of chr2 whose
\* ref base is not C/G, re-enters chr1 and emits a row there, after a load
\* for each of the three lines
C11_Witness ==
    /\ Len(consumed) = 3
    /\ consumed[1].chrom = "chr1"
    /\ consumed[2].chrom = "chr2" /\ SiteRef(consumed[2]) \notin {"C", "G"}
    /\ consumed[3].chrom = "chr1"
    /\ loads = <<"chr1", "chr2", "chr1">>
    /\ \E i \in 1..Len(emitted) : emitted[i].line_no = 3

(***************************************************************************)
(* C12                                                                     *)
(***************************************************************************)
\* the sum of methylatedCount (mc) and of coverage (cov) over the rows with
\* one context
RECURSIVE MethylatedOver(_, _)
MethylatedOver(rows, context) ==
    IF rows = << >> THEN 0
    ELSE (IF Head(rows).context = context THEN Head(rows).mc ELSE 0)
         + MethylatedOver(Tail(rows), context)

RECURSIVE CoverageOver(_, _)
CoverageOver(rows, context) ==
    IF rows = << >> THEN 0
    ELSE (IF Head(rows).context = context THEN Head(rows).cov ELSE 0)
         + CoverageOver(Tail(rows), context)

ContextsOf(rows) == {rows[i].context : i \in 1..Len(rows)}

\* a G site whose window holds a base that has no complement (an IUPAC
\* code other than N) is skipped like a site that fails the gate
NoComplement(line) ==
    /\ SiteRef(line) = "G"
    /\ ~WindowTruncated(line)
    /\ \E p \in (WindowStart(line) + 1)..WindowStop(line) :
          RefSeqOf(line.chrom)[p] \notin {"A", "C", "G", "T", "N"}

\* the rows the design gives for the lines read so far: one for each line
\* that passes the gate, none for a skipped one
RECURSIVE DesignRows(_)
DesignRows(lines) ==
    IF lines = << >> THEN << >>
    ELSE LET line == Head(lines)
             strand == IF SiteRef(line) = "C" THEN "+" ELSE "-"
             calls == RefScan(line.bases)
         IN  (IF FailsGate(line) \/ NoComplement(line) THEN << >>
              ELSE << [context |-> RefContext(line),
                       mc |-> RuleMethylated(strand, calls),
                       cov |-> RuleCoverage(strand, calls)] >>)
             \o DesignRows(Tail(lines))

\* C12: after any prefix of the pileup stream the statistics hold exactly
\* the contexts of the rows emitted so far, and for each of them the totals
\* are the sums of methylatedCount and of coverage over the rows emitted
\* with that context, each row once and skipped records nothing; hence
\* 0 <= methylatedTotal <= coverageTotal and coverageTotal > 0.
C12_StatisticsConservation ==
    /\ DOMAIN cov_dict = ContextsOf(Rows(emitted))
    /\ DOMAIN mc_dict = ContextsOf(Rows(emitted))
    /\ \A context \in DOMAIN cov_dict :
          /\ mc_dict[context] = MethylatedOver(Rows(emitted), context)
          /\ cov_dict[context] = CoverageOver(Rows(emitted), context)
          /\ mc_dict[context] = MethylatedOver(DesignRows(consumed), context)
          /\ cov_dict[context] = CoverageOver(DesignRows(consumed), context)
          /\ 0 <= mc_dict[context]
          /\ mc_dict[context] <= cov_dict[context]
          /\ cov_dict[context] > 0
    /\ ContextsOf(DesignRows(consumed)) = DOMAIN cov_dict

\* C12 witness: two rows were emitted with one context and a record was
\* skipped, and that context's totals differ from each other
C12_Witness ==
    /\ \E i, j \in 1..Len(emitted) :
          /\ i < j
          /\ emitted[i].row.context = emitted[j].row.context
          /\ mc_dict[emitted[i].row.context] < cov_dict[emitted[i].row.context]
    /\ Len(consumed) > Len(emitted)

====
